---- MODULE Spec2Model ----
(***************************************************************************)
(* Bank statement analysis dashboard (src/app.py): the analysis pipeline   *)
(* of AdvancedBankAnalysisDashboard and the rendering sequence of main().  *)
(*                                                                         *)
(* A DataFrame is [cols |-> set of column names, rows |-> sequence of row  *)
(* records]; every row carries its index label in the field idx.  A cell   *)
(* of the date column is either a string, [ty |-> "str", digits |-> the    *)
(* ten digits of "YYYY-MM-DD HH:00"], or a Timestamp, [ty |-> "ts", y, m,  *)
(* d, h].  A cell of the name column is [na |-> BOOLEAN, s |-> STRING].    *)
(* Amounts are integers, so sums are exact; a float result is NaN, an      *)
(* infinity or an exact rational.                                          *)
(***************************************************************************)
EXTENDS Integers, Sequences, FiniteSets, TLC

VARIABLES
    pc,          \* position in the run
    csv,         \* the file Data/bankstatements.csv: [ok, t]
    frame,       \* the DataFrame read_csv returned (main's local `data`)
    data,        \* analyzer.data
    credits,     \* analyzer.credits
    debits,      \* analyzer.debits
    metrics,     \* the metrics bundles returned so far, oldest first
    anomalies,   \* the anomaly bundles returned so far, oldest first
    recs,        \* the recommendation lists returned so far, oldest first
    figs,        \* the figures the visualize_* methods returned so far
    rendered,    \* the dashboard elements rendered so far
    errors,      \* the st.error messages reported so far
    out          \* the record sets returned by _preprocess_data, oldest first

vars == <<pc, csv, frame, data, credits, debits, metrics, anomalies, recs,
          figs, rendered, errors, out>>

----------------------------------------------------------------------------
(* Bounds of the model. *)

MaxRows == 2      \* rows of the input file
MaxZRows == 11    \* rows of the record set of the anomaly-detection runs
MaxCalls == 3     \* method calls on a constructed analyzer
MaxPasses == 2    \* successive preprocessing passes
MaxAnom == 2      \* rows of an anomaly set handed to the recommendations

----------------------------------------------------------------------------
(* Tables. *)

EmptyFrame == [cols |-> {}, rows |-> <<>>]

RawCols == {"date", "name", "amount", "DrCr"}

RECURSIVE Take(_, _, _)
\* The rows of `rows` at the positions in S from position i on, in order:
\* boolean-mask indexing, which keeps order and index labels.
Take(rows, S, i) ==
    IF i > Len(rows) THEN <<>>
    ELSE IF i \in S THEN <<rows[i]>> \o Take(rows, S, i + 1)
    ELSE Take(rows, S, i + 1)

Mask(t, S) == [cols |-> t.cols, rows |-> Take(t.rows, S, 1)]

\* The values of a row, without its index label.
RowVals(r) == [f \in (DOMAIN r) \ {"idx"} |-> r[f]]

RECURSIVE SumAmount(_)
SumAmount(rows) ==
    IF rows = <<>> THEN 0 ELSE Head(rows).amount + SumAmount(Tail(rows))

----------------------------------------------------------------------------
(* Dates. *)

DateStr(ds) == [ty |-> "str", digits |-> ds]

Year(ds) == ds[1] * 1000 + ds[2] * 100 + ds[3] * 10 + ds[4]
Month(ds) == ds[5] * 10 + ds[6]
Day(ds) == ds[7] * 10 + ds[8]
Hour(ds) == ds[9] * 10 + ds[10]

IsLeap(y) == (y % 4 = 0 /\ y % 100 # 0) \/ y % 400 = 0

DaysInMonth(y, m) ==
    IF m = 2 THEN (IF IsLeap(y) THEN 29 ELSE 28)
    ELSE IF m \in {4, 6, 9, 11} THEN 30 ELSE 31

\* pd.to_datetime accepts the cell: a Timestamp, or a string naming a date.
Parseable(c) ==
    \/ c.ty = "ts"
    \/ /\ c.ty = "str"
       /\ Month(c.digits) \in 1..12
       /\ Day(c.digits) \in 1..DaysInMonth(Year(c.digits), Month(c.digits))
       /\ Hour(c.digits) \in 0..23

\* pd.to_datetime of one cell: a string is parsed, a Timestamp is kept.
ToDatetime(c) ==
    IF c.ty = "ts" THEN c
    ELSE [ty |-> "ts", y |-> Year(c.digits), m |-> Month(c.digits),
          d |-> Day(c.digits), h |-> Hour(c.digits)]

\* .dt.month in the place of .dt.to_period('M'): the month without its year.
MonthOnly(ts) == [m |-> ts.m]

\* .dt.to_period('M'): the year and the month.
ToPeriodM(ts) == [y |-> ts.y, m |-> ts.m]

\* .dt.to_period('Q'): the year and the quarter.
ToPeriodQ(ts) == [y |-> ts.y, q |-> ((ts.m - 1) \div 3) + 1]

MonthOffset == <<0, 3, 2, 5, 0, 3, 5, 1, 4, 6, 2, 4>>

DayNames == <<"Sunday", "Monday", "Tuesday", "Wednesday", "Thursday",
              "Friday", "Saturday">>

\* .dt.day_name(): the weekday of the Gregorian date.
DayName(ts) ==
    LET yy == IF ts.m < 3 THEN ts.y - 1 ELSE ts.y
        w == (yy + (yy \div 4) - (yy \div 100) + (yy \div 400)
                 + MonthOffset[ts.m] + ts.d) % 7
    IN DayNames[w + 1]

----------------------------------------------------------------------------
(* AdvancedBankAnalysisDashboard._preprocess_data *)

NoName == [na |-> TRUE, s |-> ""]
Name(s) == [na |-> FALSE, s |-> s]

\* .fillna('Unknown') of one cell.
Fillna(c) == IF c.na THEN Name("Unknown") ELSE c

\* Lines 19-23 on one row: the four column assignments.
PreprocessRow(r) ==
    LET ts == ToDatetime(r.date)
    IN [idx |-> r.idx, date |-> ts, name |-> Fillna(r.name),
        amount |-> r.amount, DrCr |-> r.DrCr, month |-> ToPeriodM(ts),
        day_of_week |-> DayName(ts), quarter |-> ToPeriodQ(ts)]

\* pd.to_datetime raises when a cell of the date column names no date.
PreprocessRaises(t) == \E i \in 1..Len(t.rows) : ~Parseable(t.rows[i].date)

\* Lines 19-23: what the column assignments leave in the table they are
\* given.
AssignColumns(t) ==
    [cols |-> t.cols \cup {"month", "day_of_week", "quarter"},
     rows |-> [i \in 1..Len(t.rows) |-> PreprocessRow(t.rows[i])]]

\* DataFrame.drop_duplicates(): the first of the rows equal in every column
\* is kept, with its index label; a new table is returned.
DropDuplicates(t) ==
    Mask(t, {i \in 1..Len(t.rows) :
               \A j \in 1..(i - 1) : RowVals(t.rows[j]) # RowVals(t.rows[i])})

\* The duplicates dropped before the columns are assigned.
DropDuplicatesFirst(t) == AssignColumns(DropDuplicates(t))

\* The table _preprocess_data returns.
_preprocess_data(t) == DropDuplicates(AssignColumns(t))

----------------------------------------------------------------------------
(* Float results.  NaN, an infinity, an exact rational n/d with d > 0, or   *)
(* ("root") the signed root s * sqrt(n/d) of a rational n/d >= 0.           *)

NaN == [k |-> "nan"]
Inf(s) == [k |-> "inf", s |-> s]

RECURSIVE GCD(_, _)
GCD(a, b) == IF b = 0 THEN a ELSE GCD(b, a % b)

Abs(a) == IF a < 0 THEN -a ELSE a
Sign(a) == IF a < 0 THEN -1 ELSE IF a = 0 THEN 0 ELSE 1

\* The rational n/d, d # 0, in lowest terms.
Rat(n, d) ==
    LET g == GCD(Abs(n), Abs(d))
    IN [k |-> "num", n |-> (Sign(d) * n) \div g, d |-> Abs(d) \div g]

\* a / b of two numpy numbers: no exception, a fault value when b is 0.
Div(a, b) ==
    IF b # 0 THEN Rat(a, b)
    ELSE IF a = 0 THEN NaN ELSE Inf(Sign(a))

\* x * 100
Times100(x) == IF x.k = "num" THEN Rat(x.n * 100, x.d) ELSE x

\* The signed root s * sqrt(n/d), d > 0, n >= 0, in lowest terms.
Root(s, n, d) ==
    LET g == GCD(n, d)
    IN [k |-> "root", s |-> IF n = 0 THEN 0 ELSE s, n |-> n \div g,
        d |-> d \div g]

\* x < c, for an integer c: false when x is NaN.
Less(x, c) ==
    CASE x.k = "nan" -> FALSE
      [] x.k = "inf" -> x.s < 0
      [] x.k = "num" -> x.n < c * x.d
      [] x.k = "root" -> IF x.s < 0 THEN c >= 0 \/ x.n > c * c * x.d
                         ELSE c > 0 /\ x.n < c * c * x.d

\* x > c, for an integer c >= 0: false when x is NaN.
Greater(x, c) ==
    CASE x.k = "nan" -> FALSE
      [] x.k = "inf" -> x.s > 0
      [] x.k = "num" -> x.n > c * x.d
      [] x.k = "root" -> x.s > 0 /\ x.n > c * c * x.d

\* np.abs(x)
AbsF(x) ==
    CASE x.k = "nan" -> x
      [] x.k = "inf" -> Inf(1)
      [] x.k = "num" -> Rat(Abs(x.n), x.d)
      [] x.k = "root" -> Root(1, x.n, x.d)

----------------------------------------------------------------------------
(* AdvancedBankAnalysisDashboard.__init__ *)

\* self.data[self.data['DrCr'] == v]
WhereDrCr(t, v) == Mask(t, {i \in 1..Len(t.rows) : t.rows[i].DrCr = v})

Credits(t) == WhereDrCr(t, "Cr")
Debits(t) == WhereDrCr(t, "Db")

----------------------------------------------------------------------------
(* AdvancedBankAnalysisDashboard.calculate_advanced_metrics *)

\* The 'month' column, the key of the groupings of lines 40-41.
MonthColumn(rows) == [i \in 1..Len(rows) |-> rows[i].month]

\* self.data['date'].dt.to_period('M'), the key of the grouping of line 33.
DatePeriod(rows) == [i \in 1..Len(rows) |-> ToPeriodM(rows[i].date)]

\* groupby(keys)['amount'].sum(): one sum for each value of the key, keys[i]
\* being the key of rows[i].
GroupSum(rows, keys) ==
    [g \in {keys[i] : i \in 1..Len(rows)} |->
        SumAmount(Take(rows, {i \in 1..Len(rows) : keys[i] = g}, 1))]

RECURSIVE SumOver(_, _)
\* The sum of f over the set S of its arguments.
SumOver(f, S) ==
    IF S = {} THEN 0
    ELSE LET g == CHOOSE x \in S : TRUE
         IN f[g] + SumOver(f, S \ {g})

\* Series.mean(): NaN of no value.
Mean(f) ==
    IF DOMAIN f = {} THEN NaN
    ELSE Rat(SumOver(f, DOMAIN f), Cardinality(DOMAIN f))

\* Series.std() / Series.mean() * 100, the standard deviation being the
\* sample one (a divisor of k - 1): NaN of fewer than two values.
Volatility(f) ==
    LET k == Cardinality(DOMAIN f)
        S == SumOver(f, DOMAIN f)
        Q == SumOver([g \in DOMAIN f |-> f[g] * f[g]], DOMAIN f)
        dev == k * Q - S * S
    IN IF k < 2 THEN NaN
       ELSE IF S = 0 THEN (IF dev = 0 THEN NaN ELSE Inf(1))
       ELSE Root(Sign(S), 10000 * k * dev, (k - 1) * S * S)

\* savings_rate of the two totals (line 30).
SavingsRate(total_income, total_expenses) ==
    Times100(Div(total_income - total_expenses, total_income))

\* The bundle calculate_advanced_metrics returns of an analyzer's tables.
CalculateMetrics(d, cr, db) ==
    LET total_income == SumAmount(cr.rows)
        total_expenses == SumAmount(db.rows)
    IN [total_income |-> total_income,
        total_expenses |-> total_expenses,
        savings_rate |-> SavingsRate(total_income, total_expenses),
        avg_monthly_income |-> Mean(GroupSum(cr.rows, MonthColumn(cr.rows))),
        avg_monthly_expenses |-> Mean(GroupSum(db.rows, MonthColumn(db.rows))),
        cash_flow_volatility |-> Volatility(GroupSum(d.rows, DatePeriod(d.rows)))]

----------------------------------------------------------------------------
(* AdvancedBankAnalysisDashboard.detect_anomalies_advanced *)

RECURSIVE SumSeq(_)
SumSeq(xs) == IF xs = <<>> THEN 0 ELSE Head(xs) + SumSeq(Tail(xs))

Amounts(rows) == [i \in 1..Len(rows) |-> rows[i].amount]

\* scipy.stats.zscore of one value of xs: (x - mean) / std, the standard
\* deviation being the population one; 0 / 0 is NaN when it is 0.
ZScore(xs, x) ==
    LET n == Len(xs)
        S == SumSeq(xs)
        Q == SumSeq([i \in 1..n |-> xs[i] * xs[i]])
        dev == n * Q - S * S
        num == n * x - S
    IN IF dev = 0 THEN (IF num = 0 THEN NaN ELSE Inf(Sign(num)))
       ELSE Root(Sign(num), num * num, dev)

\* stats.zscore(self.data['amount']) > 3, the absolute value left out.
SignedZScoreMask(rows) ==
    {i \in 1..Len(rows) : Greater(ZScore(Amounts(rows), rows[i].amount), 3)}

\* np.abs(stats.zscore(self.data['amount'])) > 3, as the set of positions.
ZScoreMask(rows) ==
    {i \in 1..Len(rows) :
        Greater(AbsF(ZScore(Amounts(rows), rows[i].amount)), 3)}

_detect_zscore_anomalies(d) == Mask(d, ZScoreMask(d.rows))

RECURSIVE Insert(_, _)
Insert(x, xs) ==
    IF xs = <<>> THEN <<x>>
    ELSE IF x <= Head(xs) THEN <<x>> \o xs
    ELSE <<Head(xs)>> \o Insert(x, Tail(xs))

RECURSIVE Sorted(_)
Sorted(xs) == IF xs = <<>> THEN <<>> ELSE Insert(Head(xs), Sorted(Tail(xs)))

\* Four times Series.quantile(q4 / 4) of a non-empty series: the linear
\* interpolation between the two nearest ranks.
Quantile4(xs, q4) ==
    LET a == Sorted(xs)
        pos4 == q4 * (Len(xs) - 1)
        lo == pos4 \div 4
        r == pos4 % 4
    IN IF r = 0 THEN 4 * a[lo + 1]
       ELSE 4 * a[lo + 1] + r * (a[lo + 2] - a[lo + 1])

\* The rows outside the fences Q1 - 1.5 IQR and Q3 + 1.5 IQR (compared
\* eightfold, in integers).
IqrMask(rows) ==
    IF rows = <<>> THEN {}
    ELSE LET Q1 == Quantile4(Amounts(rows), 1)
             Q3 == Quantile4(Amounts(rows), 3)
             IQR == Q3 - Q1
         IN {i \in 1..Len(rows) :
               \/ 8 * rows[i].amount < 2 * Q1 - 3 * IQR
               \/ 8 * rows[i].amount > 2 * Q3 + 3 * IQR}

_detect_iqr_anomalies(d) == Mask(d, IqrMask(d.rows))

LateNight(r) == r.date.h < 6 \/ r.date.h > 22
Weekend(r) == DayName(r.date) \in {"Saturday", "Sunday"}

_detect_time_based_anomalies(d) ==
    [late_night_transactions |->
        Mask(d, {i \in 1..Len(d.rows) : LateNight(d.rows[i])}),
     weekend_transactions |->
        Mask(d, {i \in 1..Len(d.rows) : Weekend(d.rows[i])})]

\* The bundle detect_anomalies_advanced returns of self.data.
DetectAnomalies(d) ==
    [z_score_anomalies |-> _detect_zscore_anomalies(d),
     iqr_anomalies |-> _detect_iqr_anomalies(d),
     time_anomalies |-> _detect_time_based_anomalies(d)]

----------------------------------------------------------------------------
(* AdvancedBankAnalysisDashboard.generate_advanced_recommendations *)

\* The second savings test an `if` of its own in the place of the `elif`.
SavingsMessagesTwoIfs(m) ==
    (IF Less(m.savings_rate, 0) THEN << <<"critical">> >> ELSE <<>>)
    \o (IF Less(m.savings_rate, 10) THEN << <<"low_savings">> >> ELSE <<>>)

\* The messages, by their subject; a message that states a count carries it.
SavingsMessages(m) ==
    IF Less(m.savings_rate, 0) THEN << <<"critical">> >>
    ELSE IF Less(m.savings_rate, 10) THEN << <<"low_savings">> >>
    ELSE <<>>

VolatilityMessages(m) ==
    IF Greater(m.cash_flow_volatility, 50) THEN << <<"volatility">> >>
    ELSE <<>>

CountMessage(id, t) ==
    IF Len(t.rows) > 0 THEN << <<id, Len(t.rows)>> >> ELSE <<>>

\* A message for iqr_count as well.
AnomalyMessagesWithIqr(a) ==
    CountMessage("unusual", a.z_score_anomalies)
    \o CountMessage("iqr", a.iqr_anomalies)
    \o CountMessage("late_night", a.time_anomalies.late_night_transactions)
    \o CountMessage("weekend", a.time_anomalies.weekend_transactions)

AnomalyMessages(a) ==
    CountMessage("unusual", a.z_score_anomalies)
    \o CountMessage("late_night", a.time_anomalies.late_night_transactions)
    \o CountMessage("weekend", a.time_anomalies.weekend_transactions)

\* The list generate_advanced_recommendations(metrics, anomalies) returns.
Recommend(m, a) ==
    SavingsMessages(m) \o VolatilityMessages(m) \o AnomalyMessages(a)

----------------------------------------------------------------------------
(* The visualize_* methods.  A figure is named by its chart. *)

\* visualize_advanced_trends raises KeyError when the unstacked monthly
\* summary has no 'Cr' column or no 'Db' column.
TrendsRaises(d) ==
    \/ \A i \in 1..Len(d.rows) : d.rows[i].DrCr # "Cr"
    \/ \A i \in 1..Len(d.rows) : d.rows[i].DrCr # "Db"

\* A month of the summary holds no debit: monthly_summary['Db'] holds a NaN,
\* and np.polyfit of it either returns NaN coefficients or raises
\* LinAlgError, by the build of the least-squares routine.
TrendsFitUndefined(d) ==
    \E i \in 1..Len(d.rows) :
        \A j \in 1..Len(d.rows) :
            d.rows[j].DrCr = "Db"
                => ToPeriodM(d.rows[j].date) # ToPeriodM(d.rows[i].date)

\* visualize_advanced_trends may raise.
TrendsMayRaise(d) == TrendsRaises(d) \/ TrendsFitUndefined(d)

TrendsFigures == <<"trends">>
DistributionFigures == <<"day_of_week", "category">>
InsightFigures == <<"cash_flow", "heatmap", "recurring">>

----------------------------------------------------------------------------
(* Inputs. *)

\* 2023-01-07 23:00, a Saturday.
SaturdayNight == DateStr(<<2, 0, 2, 3, 0, 1, 0, 7, 2, 3>>)
\* 2024-01-10 10:00, a Wednesday.
WednesdayMorning == DateStr(<<2, 0, 2, 4, 0, 1, 1, 0, 1, 0>>)
\* 2024-02-05 03:00, a Monday.
MondayNight == DateStr(<<2, 0, 2, 4, 0, 2, 0, 5, 0, 3>>)
\* Month 13: no date.
BadDate == DateStr(<<2, 0, 2, 4, 1, 3, 0, 1, 0, 0>>)

GoodDates == {SaturdayNight, WednesdayMorning, MondayNight}

RawRow(i, date, name, amount, drcr) ==
    [idx |-> i, date |-> date, name |-> name, amount |-> amount,
     DrCr |-> drcr]

\* The rows of a file, without their index labels.
RowChoices(dates, names, amounts, drcrs) ==
    {RawRow(0, dt, nm, am, dc) :
        dt \in dates, nm \in names, am \in amounts, dc \in drcrs}

\* pd.read_csv labels the rows 0, 1, 2, ...
Frame(rows) ==
    [cols |-> RawCols,
     rows |-> [i \in 1..Len(rows) |-> [rows[i] EXCEPT !.idx = i - 1]]]

Frames(choices, minLen, maxLen) ==
    {Frame(rows) : rows \in UNION {[1..n -> choices] : n \in minLen..maxLen}}

AllRows ==
    RowChoices(GoodDates \cup {BadDate}, {NoName, Name("Unknown")}, {0, 5},
               {"Cr", "Db", "DR"})

\* The file is missing, or holds at least one row: the amount column of a
\* file read by pd.read_csv is then a column of integers.
Files ==
    {[ok |-> FALSE, t |-> EmptyFrame]}
    \cup {[ok |-> TRUE, t |-> t] : t \in Frames(AllRows, 1, MaxRows)}

----------------------------------------------------------------------------
(* The methods of the analyzer, as actions on its fields and on what it    *)
(* has returned.                                                           *)

analyzer == <<data, credits, debits>>
returned == <<metrics, anomalies, recs, figs>>

calculate_advanced_metrics ==
    /\ metrics' = Append(metrics, CalculateMetrics(data, credits, debits))
    /\ UNCHANGED <<analyzer, anomalies, recs, figs>>

\* The z-scores kept in a column of self.data.
detect_anomalies_in_place ==
    /\ anomalies' = Append(anomalies, DetectAnomalies(data))
    /\ data' = [data EXCEPT !.cols = @ \cup {"z_score"}]
    /\ UNCHANGED <<credits, debits, metrics, recs, figs>>

detect_anomalies_advanced ==
    /\ anomalies' = Append(anomalies, DetectAnomalies(data))
    /\ UNCHANGED <<analyzer, metrics, recs, figs>>

visualize_advanced_trends ==
    /\ ~TrendsRaises(data)
    /\ figs' = Append(figs, TrendsFigures)
    /\ UNCHANGED <<analyzer, metrics, anomalies, recs>>

visualize_comprehensive_distribution ==
    /\ figs' = Append(figs, DistributionFigures)
    /\ UNCHANGED <<analyzer, metrics, anomalies, recs>>

visualize_additional_insights ==
    /\ figs' = Append(figs, InsightFigures)
    /\ UNCHANGED <<analyzer, metrics, anomalies, recs>>

generate_advanced_recommendations(m, a) ==
    /\ recs' = Append(recs, Recommend(m, a))
    /\ UNCHANGED <<analyzer, metrics, anomalies, figs>>

----------------------------------------------------------------------------
(* main() and render_advanced_dashboard(data). *)

AllElements ==
    <<"title", "metric_row", "trends", "day_of_week", "category",
      "insights_header", "cash_flow", "heatmap", "recurring",
      "anomalies_header", "anomalies_table", "recommendations_header",
      "recommendations">>

Init ==
    /\ pc = "read_csv"
    /\ csv \in Files
    /\ frame = EmptyFrame
    /\ data = EmptyFrame
    /\ credits = EmptyFrame
    /\ debits = EmptyFrame
    /\ metrics = <<>>
    /\ anomalies = <<>>
    /\ recs = <<>>
    /\ figs = <<>>
    /\ rendered = <<>>
    /\ errors = <<>>
    /\ out = <<>>

\* The except clause of main(): one st.error, and main() returns.
Except ==
    /\ errors' = Append(errors, "Error loading file")
    /\ pc' = "done"

\* data = pd.read_csv(data_path)
ReadCsv ==
    /\ pc = "read_csv"
    /\ IF csv.ok
       THEN frame' = csv.t /\ pc' = "init" /\ UNCHANGED errors
       ELSE Except /\ UNCHANGED frame
    /\ UNCHANGED <<csv, analyzer, returned, rendered, out>>

\* analyzer = AdvancedBankAnalysisDashboard(data): _preprocess_data assigns
\* the columns of the table it is given and returns the deduplicated copy.
__init__ ==
    /\ pc = "init"
    /\ IF PreprocessRaises(frame)
       THEN Except /\ UNCHANGED <<frame, analyzer>>
       ELSE /\ frame' = AssignColumns(frame)
            /\ data' = _preprocess_data(frame)
            /\ credits' = Credits(data')
            /\ debits' = Debits(data')
            /\ pc' = "metrics"
            /\ UNCHANGED errors
    /\ UNCHANGED <<csv, returned, rendered, out>>

Metrics ==
    /\ pc = "metrics"
    /\ calculate_advanced_metrics
    /\ pc' = "anomalies"
    /\ UNCHANGED <<csv, frame, rendered, errors, out>>

Anomalies ==
    /\ pc = "anomalies"
    /\ detect_anomalies_advanced
    /\ pc' = "title"
    /\ UNCHANGED <<csv, frame, rendered, errors, out>>

\* A step of render_advanced_dashboard that adds elements to the page.
Render(at, elements, next) ==
    /\ pc = at
    /\ rendered' = rendered \o elements
    /\ pc' = next
    /\ UNCHANGED <<csv, frame, errors, out>>

Title ==
    Render("title", <<"title">>, "metric_row") /\ UNCHANGED <<analyzer, returned>>

MetricRow ==
    Render("metric_row", <<"metric_row">>, "trends")
    /\ UNCHANGED <<analyzer, returned>>

Trends ==
    \/ Render("trends", <<"trends">>, "day_of_week")
       /\ visualize_advanced_trends
    \/ /\ pc = "trends"
       /\ TrendsMayRaise(data)
       /\ Except
       /\ UNCHANGED <<csv, frame, analyzer, returned, rendered, out>>

DayOfWeek ==
    Render("day_of_week", <<"day_of_week">>, "category")
    /\ visualize_comprehensive_distribution

Category ==
    Render("category", <<"category">>, "insights")
    /\ visualize_comprehensive_distribution

Insights ==
    Render("insights",
           <<"insights_header", "cash_flow", "heatmap", "recurring">>,
           "anomalies_table")
    /\ visualize_additional_insights

AnomaliesTable ==
    Render("anomalies_table", <<"anomalies_header", "anomalies_table">>,
           "recommendations")
    /\ UNCHANGED <<analyzer, returned>>

Recommendations ==
    Render("recommendations",
           <<"recommendations_header", "recommendations">>, "done")
    /\ generate_advanced_recommendations(metrics[1], anomalies[1])

Next ==
    \/ ReadCsv
    \/ __init__
    \/ Metrics
    \/ Anomalies
    \/ Title
    \/ MetricRow
    \/ Trends
    \/ DayOfWeek
    \/ Category
    \/ Insights
    \/ AnomaliesTable
    \/ Recommendations

Spec == Init /\ [][Next]_vars

----------------------------------------------------------------------------
(* Claims about a run of main(). *)

\* C1: every run of main() is all-or-nothing: at its end either every
\* dashboard element is rendered and no error is reported, or exactly one
\* error is reported and no dashboard element was rendered.
C1_AllOrNothing ==
    pc = "done" =>
        \/ rendered = AllElements /\ errors = <<>>
        \/ rendered = <<>> /\ Len(errors) = 1

\* C2: with zero total income, the savings_rate calculate_advanced_metrics
\* returns, the one handed to the comparisons of
\* generate_advanced_recommendations, is a defined value: no NaN and no
\* infinity.
C2_NoFaultValueIntoRecommendations ==
    \A i \in 1..Len(metrics) :
        metrics[i].total_income = 0 =>
            metrics[i].savings_rate.k \notin {"nan", "inf"}

\* A NaN or infinite savings_rate of a zero total income has gone through the
\* comparisons of generate_advanced_recommendations, in a run no chart of
\* which can raise.
C2_FaultValueCompared ==
    /\ recs # <<>>
    /\ metrics[1].total_income = 0
    /\ metrics[1].savings_rate.k \in {"nan", "inf"}
    /\ ~TrendsMayRaise(data)

RowSet(t) == {t.rows[i] : i \in 1..Len(t.rows)}

\* C3: after construction credits and debits are disjoint and their union is
\* the whole of data, whatever the direction values.
C3_CreditsDebitsPartition ==
    /\ RowSet(credits) \cap RowSet(debits) = {}
    /\ RowSet(credits) \cup RowSet(debits) = RowSet(data)

\* C5: _preprocess_data leaves the table it is given as it was: after the
\* constructor returns, the caller's table is the table read from the file.
C5_InputNotMutated ==
    (csv.ok /\ pc # "read_csv") => frame = csv.t

----------------------------------------------------------------------------
(* C10: the monthly groupings of calculate_advanced_metrics. *)

\* The calendar month of each record, whatever its year.
CalendarMonth(rows) == [i \in 1..Len(rows) |-> rows[i].date.m]

\* The year and the month of each record.
YearAndMonth(rows) ==
    [i \in 1..Len(rows) |-> <<rows[i].date.y, rows[i].date.m>>]

\* The three monthly figures of the analyzer's record sets, the credits, the
\* debits and all the records bucketed by the keys ck, dk and ak.
MonthlyFigures(ck, dk, ak) ==
    [avg_monthly_income |-> Mean(GroupSum(credits.rows, ck)),
     avg_monthly_expenses |-> Mean(GroupSum(debits.rows, dk)),
     cash_flow_volatility |-> Volatility(GroupSum(data.rows, ak))]

FiguresOf(m) ==
    [avg_monthly_income |-> m.avg_monthly_income,
     avg_monthly_expenses |-> m.avg_monthly_expenses,
     cash_flow_volatility |-> m.cash_flow_volatility]

\* C10 as claimed: the monthly figures bucket the records by calendar month
\* regardless of year, so that January 2023 and January 2024 are summed
\* together before the mean is taken.
C10_BucketsByCalendarMonth ==
    \A i \in 1..Len(metrics) :
        FiguresOf(metrics[i]) =
            MonthlyFigures(CalendarMonth(credits.rows),
                           CalendarMonth(debits.rows),
                           CalendarMonth(data.rows))

\* C10 as amended: the monthly figures bucket the records by year and month,
\* so that the same calendar month of two years makes two buckets.
C10_BucketsByYearAndMonth ==
    \A i \in 1..Len(metrics) :
        FiguresOf(metrics[i]) =
            MonthlyFigures(YearAndMonth(credits.rows),
                           YearAndMonth(debits.rows),
                           YearAndMonth(data.rows))

\* Two credits and two debits of the same calendar month of different years
\* have gone through calculate_advanced_metrics.
C10_Witness ==
    /\ Len(metrics) > 0
    /\ \E i, j \in 1..Len(credits.rows) :
          /\ credits.rows[i].date.m = credits.rows[j].date.m
          /\ credits.rows[i].date.y # credits.rows[j].date.y
          /\ credits.rows[i].amount > 0
          /\ credits.rows[j].amount > 0

----------------------------------------------------------------------------
(* A constructed analyzer, its methods called in any order. *)

\* The fields __init__ leaves of a table that preprocesses.
Constructed(t) ==
    /\ frame = AssignColumns(t)
    /\ data = _preprocess_data(t)
    /\ credits = Credits(data)
    /\ debits = Debits(data)

CallRows ==
    RowChoices({SaturdayNight, WednesdayMorning}, {NoName}, {0, 5},
               {"Cr", "Db"})

InitCalls ==
    /\ pc = "ready"
    /\ csv \in {[ok |-> TRUE, t |-> t] : t \in Frames(CallRows, 1, MaxRows)}
    /\ Constructed(csv.t)
    /\ metrics = <<>>
    /\ anomalies = <<>>
    /\ recs = <<>>
    /\ figs = <<>>
    /\ rendered = <<>>
    /\ errors = <<>>
    /\ out = <<>>

Calls == Len(metrics) + Len(anomalies) + Len(recs) + Len(figs) + Len(errors)

\* A call from outside main(): nothing of the page or of the caller changes.
Call ==
    /\ pc = "ready"
    /\ Calls < MaxCalls
    /\ UNCHANGED <<pc, csv, frame, rendered, out>>

CallMetrics == Call /\ calculate_advanced_metrics /\ UNCHANGED errors

CallAnomalies == Call /\ detect_anomalies_advanced /\ UNCHANGED errors

CallTrends ==
    \/ Call /\ visualize_advanced_trends /\ UNCHANGED errors
    \/ /\ Call
       /\ TrendsMayRaise(data)
       /\ errors' = Append(errors, "KeyError or LinAlgError")
       /\ UNCHANGED <<analyzer, returned>>

CallDistribution ==
    Call /\ visualize_comprehensive_distribution /\ UNCHANGED errors

CallInsights == Call /\ visualize_additional_insights /\ UNCHANGED errors

CallRecommendations ==
    /\ Call
    /\ \E i \in 1..Len(metrics), j \in 1..Len(anomalies) :
          generate_advanced_recommendations(metrics[i], anomalies[j])
    /\ UNCHANGED errors

NextCalls ==
    \/ CallMetrics
    \/ CallAnomalies
    \/ CallTrends
    \/ CallDistribution
    \/ CallInsights
    \/ CallRecommendations

SpecCalls == InitCalls /\ [][NextCalls]_vars

\* C4: after preprocessing the record set is read-only: no call of
\* calculate_advanced_metrics, detect_anomalies_advanced, a visualize_*
\* method or generate_advanced_recommendations changes data, credits or
\* debits, nor a metrics or anomaly bundle returned before it.
C4_ReadOnlyAfterPreprocessing ==
    [][/\ data' = data
       /\ credits' = credits
       /\ debits' = debits
       /\ Len(metrics') >= Len(metrics)
       /\ \A i \in 1..Len(metrics) : metrics'[i] = metrics[i]
       /\ Len(anomalies') >= Len(anomalies)
       /\ \A i \in 1..Len(anomalies) : anomalies'[i] = anomalies[i]]_vars

\* Both bundles were returned from a record set that holds records, one of
\* them twice, and a third method was called after them.
C4_Witness ==
    /\ pc = "ready"
    /\ data.rows # <<>>
    /\ Len(metrics) + Len(anomalies) >= 2
    /\ Len(recs) + Len(figs) >= 1

----------------------------------------------------------------------------
(* _preprocess_data run on its own output. *)

PreRows ==
    RowChoices({SaturdayNight, WednesdayMorning, BadDate},
               {NoName, Name("Unknown")}, {0, 5}, {"Cr"})

InitPre ==
    /\ pc = "preprocess"
    /\ csv \in {[ok |-> TRUE, t |-> t] : t \in Frames(PreRows, 0, MaxRows)}
    /\ frame = csv.t
    /\ data = EmptyFrame
    /\ credits = EmptyFrame
    /\ debits = EmptyFrame
    /\ metrics = <<>>
    /\ anomalies = <<>>
    /\ recs = <<>>
    /\ figs = <<>>
    /\ rendered = <<>>
    /\ errors = <<>>
    /\ out = <<>>

\* One call of _preprocess_data: on the table read from the file first, on
\* the table the call before it returned afterwards.  The call assigns the
\* columns of its argument and returns a new table.
PreprocessPass ==
    /\ pc = "preprocess"
    /\ Len(out) < MaxPasses
    /\ LET arg == IF out = <<>> THEN frame ELSE out[Len(out)]
       IN IF PreprocessRaises(arg)
          THEN /\ errors' = Append(errors, "ValueError")
               /\ pc' = "done"
               /\ UNCHANGED <<frame, out>>
          ELSE /\ frame' = IF out = <<>> THEN AssignColumns(arg) ELSE frame
               /\ out' = Append(IF out = <<>> THEN out
                                ELSE [out EXCEPT ![Len(out)] =
                                          AssignColumns(arg)],
                                _preprocess_data(arg))
               /\ UNCHANGED <<pc, errors>>
    /\ UNCHANGED <<csv, analyzer, returned, rendered>>

NextPre == PreprocessPass

SpecPre == InitPre /\ [][NextPre]_vars

\* C6: preprocessing is idempotent: a pass over the record set the pass
\* before it returned returns that record set, no record removed and no field
\* changed.
C6_PreprocessIdempotent ==
    [][(out # <<>> /\ Len(out') = Len(out) + 1)
          => out'[Len(out')] = out[Len(out)]]_vars

\* A second pass has run over a record set whose file held two rows that
\* differ only by a missing name against the name "Unknown".
C6_Witness ==
    /\ Len(out) >= 2
    /\ \E i, j \in 1..Len(csv.t.rows) :
          /\ csv.t.rows[i].name = NoName
          /\ csv.t.rows[j].name = Name("Unknown")
          /\ [csv.t.rows[i] EXCEPT !.name = NoName, !.idx = 0]
               = [csv.t.rows[j] EXCEPT !.name = NoName, !.idx = 0]

----------------------------------------------------------------------------
(* detect_anomalies_advanced on record sets large enough for an outlier. *)

\* The n-th row of a file of the given amounts: an hour of its own, the
\* directions alternating.
ZRow(n, amount) ==
    RawRow(n - 1,
           DateStr(<<2, 0, 2, 4, 0, 1, 1, 0, n \div 10, n % 10>>),
           Name("Shop"), amount, IF n % 2 = 0 THEN "Cr" ELSE "Db")

\* A table of a rows of amount 0, then b of amount 1, then c of amount 50;
\* its amount column is a column of integers also when it holds no row.
ZFrame(a, b, c) ==
    [cols |-> RawCols,
     rows |-> [n \in 1..(a + b + c) |->
                 ZRow(n, IF n <= a THEN 0 ELSE IF n <= a + b THEN 1 ELSE 50)]]

ZFrames ==
    {ZFrame(a, b, c) : a \in 0..MaxZRows, b \in 0..MaxZRows,
                       c \in 0..MaxZRows}

InitZ ==
    /\ pc = "detect"
    /\ csv \in {[ok |-> TRUE, t |-> t] :
                  t \in {z \in ZFrames : Len(z.rows) <= MaxZRows}}
    /\ Constructed(csv.t)
    /\ metrics = <<>>
    /\ anomalies = <<>>
    /\ recs = <<>>
    /\ figs = <<>>
    /\ rendered = <<>>
    /\ errors = <<>>
    /\ out = <<>>

Detect ==
    /\ pc = "detect"
    /\ detect_anomalies_advanced
    /\ pc' = "done"
    /\ UNCHANGED <<csv, frame, rendered, errors, out>>

NextZ == Detect

SpecZ == InitZ /\ [][NextZ]_vars

\* The sum over the rows of the squared deviation of n * amount from the sum
\* S of the amounts: n * n times the sum of the squared deviations from the
\* mean.
RECURSIVE SquaredDeviations(_, _, _)
SquaredDeviations(rows, n, S) ==
    IF rows = <<>> THEN 0
    ELSE (n * Head(rows).amount - S) * (n * Head(rows).amount - S)
         + SquaredDeviations(Tail(rows), n, S)

\* The record lies more than 3 population standard deviations from the mean
\* of amount over all of rows: (x - mean)^2 > 9 * variance, the variance the
\* mean of the squared deviations, both sides multiplied by n^3.
BeyondThreeSigma(rows, r) ==
    LET n == Len(rows)
        S == SumAmount(rows)
        dev == n * r.amount - S
    IN n * dev * dev > 9 * SquaredDeviations(rows, n, S)

\* C9: the z-score detector flags exactly the records whose amount lies more
\* than 3 population standard deviations from the mean over the whole record
\* set, and flags none of fewer than 2 records or of equal amounts.
C9_ZScoreFlagsBeyondThreeSigma ==
    \A k \in 1..Len(anomalies) :
        LET flagged == anomalies[k].z_score_anomalies
        IN /\ flagged =
                Mask(data, {i \in 1..Len(data.rows) :
                              BeyondThreeSigma(data.rows, data.rows[i])})
           /\ (\/ Len(data.rows) < 2
               \/ \A i, j \in 1..Len(data.rows) :
                     data.rows[i].amount = data.rows[j].amount)
              => flagged.rows = <<>>

\* A record below the mean was flagged in a record set of credits and debits.
C9_Witness ==
    /\ Len(anomalies) > 0
    /\ credits.rows # <<>>
    /\ debits.rows # <<>>
    /\ \E i \in 1..Len(anomalies[1].z_score_anomalies.rows) :
          anomalies[1].z_score_anomalies.rows[i].amount = 0

----------------------------------------------------------------------------
(* generate_advanced_recommendations on bundles of every shape. *)

SavingsRates ==
    {NaN, Inf(-1), Inf(1)} \cup {Rat(n, 2) : n \in {-1, 0, 1, 19, 20, 21}}

Volatilities == {NaN, Root(1, 2500, 1), Root(1, 10000, 1)}

MetricsBundle(sr, vol) ==
    [total_income |-> 0, total_expenses |-> 0, savings_rate |-> sr,
     avg_monthly_income |-> NaN, avg_monthly_expenses |-> NaN,
     cash_flow_volatility |-> vol]

\* The records the anomaly sets are drawn from.
Pool ==
    _preprocess_data([cols |-> RawCols,
                      rows |-> [n \in 1..MaxAnom |-> ZRow(n, n)]])

AnomalyBundle(z, iqr, late, weekend) ==
    [z_score_anomalies |-> Mask(Pool, 1..z),
     iqr_anomalies |-> Mask(Pool, iqr),
     time_anomalies |->
        [late_night_transactions |-> Mask(Pool, 1..late),
         weekend_transactions |-> Mask(Pool, 1..weekend)]]

\* One metrics bundle, and two anomaly bundles that differ in their IQR sets
\* at most.
InitRec ==
    /\ pc = "recommend"
    /\ csv = [ok |-> FALSE, t |-> EmptyFrame]
    /\ frame = EmptyFrame
    /\ data = EmptyFrame
    /\ credits = EmptyFrame
    /\ debits = EmptyFrame
    /\ \E sr \in SavingsRates, vol \in Volatilities :
          metrics = <<MetricsBundle(sr, vol)>>
    /\ \E z \in 0..MaxAnom, late \in 0..MaxAnom, weekend \in 0..MaxAnom,
          iqr1 \in SUBSET (1..MaxAnom), iqr2 \in SUBSET (1..MaxAnom) :
          anomalies = <<AnomalyBundle(z, iqr1, late, weekend),
                        AnomalyBundle(z, iqr2, late, weekend)>>
    /\ recs = <<>>
    /\ figs = <<>>
    /\ rendered = <<>>
    /\ errors = <<>>
    /\ out = <<>>

Generate ==
    /\ pc = "recommend"
    /\ Len(recs) < Len(anomalies)
    /\ generate_advanced_recommendations(metrics[1], anomalies[Len(recs) + 1])
    /\ UNCHANGED <<pc, csv, frame, rendered, errors, out>>

NextRec == Generate

SpecRec == InitRec /\ [][NextRec]_vars

Holds(list, message) == \E k \in 1..Len(list) : list[k] = message

\* savings_rate < 0, on the value itself.
Negative(x) == (x.k = "inf" /\ x.s = -1) \/ (x.k = "num" /\ x.n < 0)

\* 0 <= savings_rate < 10, on the value itself.
ZeroToTen(x) == x.k = "num" /\ 0 <= x.n /\ x.n < 10 * x.d

\* C7: at most one savings-rate message: the critical one exactly when
\* savings_rate < 0, the low-savings one exactly when 0 <= savings_rate < 10,
\* neither when savings_rate >= 10, never both.
C7_OneSavingsMessage ==
    \A i \in 1..Len(recs) :
        LET sr == metrics[1].savings_rate
            critical == Holds(recs[i], <<"critical">>)
            low == Holds(recs[i], <<"low_savings">>)
        IN /\ critical <=> Negative(sr)
           /\ low <=> ZeroToTen(sr)
           /\ ~(critical /\ low)
           /\ Cardinality({k \in 1..Len(recs[i]) :
                  recs[i][k] \in {<<"critical">>, <<"low_savings">>}}) <= 1

\* The low-savings branch was taken: a list holds the low-savings message.
C7_Witness ==
    /\ recs # <<>>
    /\ Holds(recs[1], <<"low_savings">>)
    /\ metrics[1].savings_rate = Rat(19, 2)

\* C8: the recommendation list does not depend on the IQR anomaly set: the
\* lists of two calls whose inputs differ in iqr_anomalies alone are equal.
C8_IndependentOfIqr ==
    \A i, j \in 1..Len(recs) : recs[i] = recs[j]

\* Both calls returned, on IQR sets of different sizes, one of them empty,
\* and the lists hold a message.
C8_Witness ==
    /\ Len(recs) = 2
    /\ anomalies[1].iqr_anomalies.rows = <<>>
    /\ anomalies[2].iqr_anomalies.rows # <<>>
    /\ recs[1] # <<>>

====
